---- MODULE Spec2Model ----
(***************************************************************************)
(* Model of client/src/components/RequestModal.tsx: the emergency-request  *)
(* dialog.  The state is the react-hook-form draft (values, errors,        *)
(* isSubmitted), the component's isSubmitting flag, the handler runs and   *)
(* geolocation requests in flight, and the caller's open flag.  Each       *)
(* action is one event handler or one asynchronous continuation, run to    *)
(* completion as the single-threaded event loop runs it.                   *)
(***************************************************************************)
EXTENDS Integers, Sequences, FiniteSets, TLC

(* ---------------- program constants: requestSchema ---------------- *)
MinName == 2
MinPhone == 10
MinEmergencyType == 1
MinLocation == 5

(* ---------------- bounds of the model ---------------- *)
\* largest absolute coordinate the location service answers with
MaxCoord == 12
\* cap on handler runs awaiting their timer at the same time
MaxRuns == 2
\* cap on the number of accepted submits in one behaviour
MaxSubmits == 2
\* cap on geolocation requests awaiting their callback
MaxGeo == 1

VARIABLES
    values,          \* form values: the draft
    errors,          \* formState.errors, "" for a field without error
    isSubmitted,     \* formState.isSubmitted (switches on re-validation on change)
    isSubmitting,    \* useState(false)
    inFlight,        \* runs of handleSubmit suspended at the await
    geoPending,      \* getCurrentPosition requests not yet answered
    geoAvailable,    \* navigator.geolocation is present
    onCloseThrows,   \* the caller's onClose prop throws when called
    onSuccessThrows, \* the caller's onSuccess prop throws when called
    isOpen,          \* the caller's open flag
    started,         \* number of runs of handleSubmit started so far
    notified,        \* number of success notifications shown so far
    successCalls,    \* number of calls of onSuccess so far
    event,           \* the handler that ran last
    wasOpen,         \* the open flag that handler found
    coords,          \* the coordinates it was answered with (geoSuccess)
    outcome,         \* how the run of handleSubmit that finished last ended
    effects          \* what the last handler showed and called, in order

vars == <<values, errors, isSubmitted, isSubmitting, inFlight, geoPending,
          geoAvailable, onCloseThrows, onSuccessThrows, isOpen, started,
          notified, successCalls, event, wasOpen, coords, outcome,
          effects>>

props == <<geoAvailable, onCloseThrows, onSuccessThrows>>
counters == <<started, notified, successCalls>>

(* ---------------- the schema and the draft ---------------- *)
Fields == {"name", "phone", "emergencyType", "location", "description"}

NoError == ""

MinLength(f) ==
    CASE f = "name" -> MinName
      [] f = "phone" -> MinPhone
      [] f = "emergencyType" -> MinEmergencyType
      [] f = "location" -> MinLocation
      [] OTHER -> 0

Message(f) ==
    CASE f = "name" -> "Name must be at least 2 characters"
      [] f = "phone" -> "Phone number must be at least 10 digits"
      [] f = "emergencyType" -> "Emergency type is required"
      [] f = "location" -> "Location details are required"
      [] OTHER -> NoError

\* mutant of FieldError: a value of exactly the minimum length is refused
FieldErrorInclusive(f, v) ==
    IF Len(v) <= MinLength(f) /\ f # "description" THEN Message(f) ELSE NoError

\* z.string().min(n, message) on one field; description is z.string().optional()
FieldError(f, v) == IF Len(v) < MinLength(f) THEN Message(f) ELSE NoError

\* mutant of requestSchema: the optional description is required
requestSchemaDescriptionRequired(data) ==
    [f \in Fields |->
        IF f = "description" /\ data[f] = "" THEN "Required"
        ELSE FieldError(f, data[f])]

\* zodResolver(requestSchema): the errors of a draft, field by field
requestSchema(data) == [f \in Fields |-> FieldError(f, data[f])]

NoErrors == [f \in Fields |-> NoError]

defaultValues == [f \in Fields |-> ""]

(* ---------------- what the user can type ---------------- *)
RECURSIVE Pad(_)
Pad(n) == IF n <= 0 THEN "" ELSE "x" \o Pad(n - 1)

\* the empty text and, around each field's boundary, one character short of
\* the minimum and the minimum
Typed(f) ==
    IF f = "description" THEN {"", "x"}
    ELSE {"", Pad(MinLength(f) - 1), Pad(MinLength(f))}

(* ---------------- the location text ---------------- *)
Digit(d) ==
    CASE d = 0 -> "0" [] d = 1 -> "1" [] d = 2 -> "2" [] d = 3 -> "3"
      [] d = 4 -> "4" [] d = 5 -> "5" [] d = 6 -> "6" [] d = 7 -> "7"
      [] d = 8 -> "8" [] OTHER -> "9"

RECURSIVE NatToString(_)
NatToString(n) ==
    IF n < 10 THEN Digit(n) ELSE NatToString(n \div 10) \o Digit(n % 10)

\* String(n) of an integral number
NumberToString(n) == IF n < 0 THEN "-" \o NatToString(-n) ELSE NatToString(n)

\* mutant of LocationText: the separator lacks its space
LocationTextNoSpace(latitude, longitude) ==
    NumberToString(latitude) \o "," \o NumberToString(longitude)

\* `${latitude}, ${longitude}`
LocationText(latitude, longitude) ==
    NumberToString(latitude) \o ", " \o NumberToString(longitude)

\* the answers of the location service: integral degrees, negative, zero
\* and two-digit
Latitudes == {-MaxCoord, 0}
Longitudes == {0, MaxCoord}

(* ---------------- notifications and callbacks ---------------- *)
ToastSuccess == "toast: Request Sent Successfully"
ToastFailure == "toast: Request Failed"
ToastLocation == "toast: Location Error"
CallReset == "form.reset()"
CallOnClose == "onClose()"
CallOnSuccess == "onSuccess()"

\* the caller's onClose: clears the open flag, unless it throws
ParentOnClose(open) == IF onCloseThrows THEN open ELSE FALSE

(* ---------------- Init ---------------- *)
Init ==
    /\ values = defaultValues
    /\ errors = NoErrors
    /\ isSubmitted = FALSE
    /\ isSubmitting = FALSE
    /\ inFlight = 0
    /\ geoPending = 0
    /\ geoAvailable \in BOOLEAN
    /\ onCloseThrows \in BOOLEAN
    /\ onSuccessThrows \in BOOLEAN
    /\ isOpen = FALSE
    /\ started = 0
    /\ notified = 0
    /\ successCalls = 0
    /\ event = "init"
    /\ wasOpen = FALSE
    /\ coords = <<0, 0>>
    /\ outcome = "none"
    /\ effects = <<>>

(* ---------------- the caller opens the dialog ---------------- *)
Open ==
    /\ ~isOpen
    /\ isOpen' = TRUE
    /\ event' = "open"
    /\ wasOpen' = isOpen
    /\ coords' = <<0, 0>>
    /\ effects' = <<>>
    /\ UNCHANGED <<values, errors, isSubmitted, isSubmitting, inFlight,
                   geoPending, props, counters, outcome>>

(* ---------------- a field's onChange ---------------- *)
\* mode onSubmit, reValidateMode onChange: the changed field is validated
\* again once the form has been submitted
Change(f, v) ==
    /\ isOpen
    /\ v # values[f]
    /\ values' = [values EXCEPT ![f] = v]
    /\ errors' = IF isSubmitted
                 THEN [errors EXCEPT ![f] = requestSchema(values')[f]]
                 ELSE errors
    /\ event' = "change"
    /\ wasOpen' = isOpen
    /\ coords' = <<0, 0>>
    /\ effects' = <<>>
    /\ UNCHANGED <<isSubmitted, isSubmitting, inFlight, geoPending, props,
                   isOpen, counters, outcome>>

(* ---------------- the form's onSubmit ---------------- *)
\* mutant of SubmitEnabled: the submit button is never disabled
SubmitAlwaysEnabled == TRUE

\* the submit button is disabled while isSubmitting, and a form whose
\* default button is disabled is not submitted by the Enter key either
SubmitEnabled == ~isSubmitting

\* form.handleSubmit(handleSubmit): the resolver validates the draft; a valid
\* draft starts handleSubmit, which runs up to its await; an invalid one
\* stores the errors and marks the form submitted
Submit ==
    /\ isOpen
    /\ SubmitEnabled
    /\ LET errs == requestSchema(values) IN
       IF errs = NoErrors
       THEN /\ started < MaxSubmits
            /\ inFlight < MaxRuns
            /\ errors' = NoErrors
            /\ isSubmitting' = TRUE
            /\ inFlight' = inFlight + 1
            /\ started' = started + 1
            /\ UNCHANGED isSubmitted
       ELSE /\ errors' = errs
            /\ isSubmitted' = TRUE
            /\ UNCHANGED <<isSubmitting, inFlight, started>>
    /\ event' = "submit"
    /\ wasOpen' = isOpen
    /\ coords' = <<0, 0>>
    /\ effects' = <<>>
    /\ UNCHANGED <<values, geoPending, props, isOpen, notified, successCalls,
                   outcome>>

(* ---------------- handleSubmit after the await ---------------- *)
\* mutant of ResetValues: the reset is left out
KeepValues == values

\* form.reset(): the draft goes back to defaultValues
ResetValues == defaultValues

\* mutant of HandlerEffects: a dialog found closed is not closed again
\* and its caller is not told
HandlerEffectsIfOpen ==
    IF ~isOpen THEN <<ToastSuccess, CallReset>>
    ELSE <<ToastSuccess, CallReset, CallOnClose>>
         \o (IF onCloseThrows THEN <<ToastFailure>>
             ELSE <<CallOnSuccess>>
                  \o (IF onSuccessThrows THEN <<ToastFailure>> ELSE <<>>))

\* the calls of the try block in order, and of the catch block when a
\* callback throws
HandlerEffects ==
    <<ToastSuccess, CallReset, CallOnClose>>
    \o (IF onCloseThrows THEN <<ToastFailure>>
        ELSE <<CallOnSuccess>>
             \o (IF onSuccessThrows THEN <<ToastFailure>> ELSE <<>>))

\* mutant of FinallySubmitting: the flag is not cleared
FinallyMissing == isSubmitting

\* finally { setIsSubmitting(false) }
FinallySubmitting == FALSE

\* the timer fires and handleSubmit runs to its end; react-hook-form then
\* marks the form submitted
Resume ==
    /\ inFlight > 0
    /\ inFlight' = inFlight - 1
    /\ values' = ResetValues
    /\ errors' = NoErrors
    /\ isSubmitted' = TRUE
    /\ isOpen' = ParentOnClose(isOpen)
    /\ effects' = HandlerEffects
    /\ outcome' = IF onCloseThrows \/ onSuccessThrows THEN "failure" ELSE "success"
    /\ notified' = notified + 1
    /\ successCalls' = IF onCloseThrows THEN successCalls ELSE successCalls + 1
    /\ isSubmitting' = FinallySubmitting
    /\ event' = "resume"
    /\ wasOpen' = isOpen
    /\ coords' = <<0, 0>>
    /\ UNCHANGED <<geoPending, props, started>>

(* ---------------- closing the dialog ---------------- *)
\* the Cancel button: onClick={onClose}
Cancel ==
    /\ isOpen
    /\ isOpen' = ParentOnClose(isOpen)
    /\ event' = "cancel"
    /\ wasOpen' = isOpen
    /\ coords' = <<0, 0>>
    /\ effects' = <<CallOnClose>>
    /\ UNCHANGED <<values, errors, isSubmitted, isSubmitting, inFlight,
                   geoPending, props, counters, outcome>>

\* Escape, the overlay or the close cross: onOpenChange={onClose}
Dismiss ==
    /\ isOpen
    /\ isOpen' = ParentOnClose(isOpen)
    /\ event' = "dismiss"
    /\ wasOpen' = isOpen
    /\ coords' = <<0, 0>>
    /\ effects' = <<CallOnClose>>
    /\ UNCHANGED <<values, errors, isSubmitted, isSubmitting, inFlight,
                   geoPending, props, counters, outcome>>

(* ---------------- the location helper ---------------- *)
\* "Use Current Location": a request is made if navigator.geolocation
\* exists, and nothing at all happens otherwise
getCurrentLocation ==
    /\ isOpen
    /\ IF geoAvailable
       THEN /\ geoPending < MaxGeo
            /\ geoPending' = geoPending + 1
       ELSE UNCHANGED geoPending
    /\ event' = "getCurrentLocation"
    /\ wasOpen' = isOpen
    /\ coords' = <<0, 0>>
    /\ effects' = <<>>
    /\ UNCHANGED <<values, errors, isSubmitted, isSubmitting, inFlight, props,
                   isOpen, counters, outcome>>

\* the success callback: form.setValue("location", ...), without validation
GeoSuccess(latitude, longitude) ==
    /\ geoPending > 0
    /\ geoPending' = geoPending - 1
    /\ values' = [values EXCEPT !["location"] = LocationText(latitude, longitude)]
    /\ event' = "geoSuccess"
    /\ wasOpen' = isOpen
    /\ coords' = <<latitude, longitude>>
    /\ effects' = <<>>
    /\ UNCHANGED <<errors, isSubmitted, isSubmitting, inFlight, props, isOpen,
                   counters, outcome>>

\* the error callback: a notification, the draft untouched
GeoError ==
    /\ geoPending > 0
    /\ geoPending' = geoPending - 1
    /\ event' = "geoError"
    /\ wasOpen' = isOpen
    /\ coords' = <<0, 0>>
    /\ effects' = <<ToastLocation>>
    /\ UNCHANGED <<values, errors, isSubmitted, isSubmitting, inFlight, props,
                   isOpen, counters, outcome>>

(* ---------------- the specifications ---------------- *)
Next ==
    \/ Open
    \/ \E f \in Fields : \E v \in Typed(f) : Change(f, v)
    \/ Submit
    \/ Resume
    \/ Cancel
    \/ Dismiss
    \/ getCurrentLocation
    \/ \E latitude \in Latitudes : \E longitude \in Longitudes :
          GeoSuccess(latitude, longitude)
    \/ GeoError

Spec == Init /\ [][Next]_vars

\* a timer that was set fires, and the location service answers
FairSpec == Spec /\ WF_vars(Resume)

(* ======================= the claims ======================= *)

\* the required fields of the current draft that violate their constraint
ViolatingFields ==
    (IF Len(values.name) < 2 THEN {"name"} ELSE {})
    \cup (IF Len(values.phone) < 10 THEN {"phone"} ELSE {})
    \cup (IF values.emergencyType = "" THEN {"emergencyType"} ELSE {})
    \cup (IF Len(values.location) < 5 THEN {"location"} ELSE {})

(* C1: a submit of a draft with at least one violating required field is  *)
(* rejected without side effects: the handler does not start (isSubmitting *)
(* stays false, no run in flight), nothing is shown, neither callback is   *)
(* called, the draft and the open flag are unchanged; and a field carries  *)
(* an error message exactly if it violates its constraint.                 *)
C1_InvalidSubmitRejected ==
    [][(event' = "submit" /\ ViolatingFields # {}) =>
          /\ values' = values
          /\ ~isSubmitting /\ ~isSubmitting'
          /\ inFlight' = inFlight
          /\ started' = started
          /\ effects' = <<>>
          /\ notified' = notified
          /\ successCalls' = successCalls
          /\ isOpen' = isOpen
          /\ \A f \in Fields : (errors'[f] # "") <=> (f \in ViolatingFields)
      ]_vars

\* a rejected submit of a draft with a short name and a phone of exactly ten characters
C1_Witness ==
    /\ event = "submit"
    /\ Len(values.name) = 1
    /\ Len(values.phone) = 10
    /\ errors.name = "Name must be at least 2 characters"
    /\ errors.phone = ""
    /\ ~isSubmitting
    /\ started = 0

(* C2: a submit of a draft that satisfies every constraint, whatever its   *)
(* description, passes validation (no field carries an error) and starts   *)
(* the submission handler exactly once: one more run started, one more in  *)
(* flight, isSubmitting true.                                              *)
C2_ValidSubmitStartsHandlerOnce ==
    [][(event' = "submit" /\ ViolatingFields = {}) =>
          /\ started' = started + 1
          /\ inFlight' = inFlight + 1
          /\ isSubmitting'
          /\ \A f \in Fields : errors'[f] = ""
          /\ values' = values
      ]_vars

\* an accepted submit of a draft at the boundaries, with an empty description
C2_Witness ==
    /\ event = "submit"
    /\ Len(values.name) = 2
    /\ Len(values.phone) = 10
    /\ Len(values.emergencyType) = 1
    /\ Len(values.location) = 5
    /\ values.description = ""
    /\ isSubmitting
    /\ inFlight = 1
    /\ started = 1

(* C3: when a run of the handler ends in success, every field of the draft *)
(* is empty, and the run showed the success notification and then called   *)
(* onClose once and onSuccess once, and nothing else.                      *)
C3_SuccessResetsAndCallsBack ==
    (event = "resume" /\ outcome = "success") =>
        /\ \A f \in Fields : values[f] = ""
        /\ effects = <<"toast: Request Sent Successfully", "form.reset()",
                       "onClose()", "onSuccess()">>

\* a run that ended in success
C3_Witness ==
    /\ event = "resume"
    /\ outcome = "success"
    /\ notified = 1
    /\ successCalls = 1
    /\ ~isOpen

(* C7: a successful answer (latitude, longitude) of the location service   *)
(* sets the location field to the decimal latitude, a comma, one space and *)
(* the decimal longitude, whatever the field held, and leaves the other    *)
(* four fields unchanged.                                                  *)
C7_LocationWritten ==
    [][event' = "geoSuccess" =>
          /\ values'.location =
                NumberToString(coords'[1]) \o ", " \o NumberToString(coords'[2])
          /\ (coords' = <<0, 0>> => values'.location = "0, 0")
          /\ (coords' = <<-12, 12>> => values'.location = "-12, 12")
          /\ \A f \in Fields \ {"location"} : values'[f] = values[f]
      ]_vars

\* a negative latitude and a two-digit longitude written over a typed location
C7_Witness ==
    /\ event = "geoSuccess"
    /\ coords[1] < 0
    /\ coords[2] > 9
    /\ Len(values.location) = 7
    /\ values.name # ""
    /\ values.description # ""

\* the elements of a sequence
Range(seq) == {seq[i] : i \in DOMAIN seq}

(* C4: when a run of the handler ends in failure, the dialog remains open  *)
(* and no reset occurs: the run called neither onClose nor onSuccess, the  *)
(* draft keeps the values it had, the open flag is unchanged, and the      *)
(* failure notification is shown.                                          *)
C4_FailureKeepsDialogAndDraft ==
    [][(event' = "resume" /\ outcome' = "failure") =>
          /\ values' = values
          /\ "form.reset()" \notin Range(effects')
          /\ "onClose()" \notin Range(effects')
          /\ "onSuccess()" \notin Range(effects')
          /\ isOpen' = isOpen
          /\ "toast: Request Failed" \in Range(effects')
      ]_vars

(* C5: the location helper answered by failure, or invoked when the        *)
(* location service is unavailable, leaves the location field unchanged    *)
(* and shows the location error notification.                              *)
C5_LocationFailureNotified ==
    [][(event' = "geoError" \/ (event' = "getCurrentLocation" /\ ~geoAvailable)) =>
          /\ values'.location = values.location
          /\ "toast: Location Error" \in Range(effects')
      ]_vars

(* C6: the draft is discarded on cancellation as on successful submission: *)
(* after Cancel or a dismissal, and whenever the dialog has just been      *)
(* opened, every field of the draft is empty.                              *)
C6_DraftEmptyAfterClose ==
    event \in {"cancel", "dismiss", "open"} => \A f \in Fields : values[f] = ""

(* C8: the status follows idle -> submitting -> (success | failure) ->     *)
(* idle: isSubmitting is true exactly while a run of the handler is in     *)
(* flight, it becomes true only by an accepted submit and false only by a  *)
(* run ending in success or in failure, and every run that starts          *)
(* eventually returns it to false.                                         *)
C8_StatusCycle ==
    /\ [](isSubmitting <=> inFlight > 0)
    /\ [][/\ (~isSubmitting /\ isSubmitting') =>
                (event' = "submit" /\ started' = started + 1)
          /\ (isSubmitting /\ ~isSubmitting') =>
                (event' = "resume" /\ outcome' \in {"success", "failure"})
         ]_vars
    /\ (isSubmitting ~> ~isSubmitting)

\* back to idle after a second run
C8_Witness ==
    /\ event = "resume"
    /\ ~isSubmitting
    /\ inFlight = 0
    /\ started = 2
    /\ notified = 2

(* C9: closing the dialog while a submission is in flight does not cancel  *)
(* it: the run stays in flight, it completes, and on completion it shows   *)
(* the success notification, resets the draft and calls onClose and        *)
(* onSuccess although the dialog is already closed.                        *)
C9_CloseDoesNotCancel ==
    /\ [][(event' \in {"cancel", "dismiss"} /\ isSubmitting) =>
             (isSubmitting' /\ inFlight' = inFlight)]_vars
    /\ []((event = "resume" /\ ~wasOpen) =>
             /\ Len(effects) >= 4
             /\ SubSeq(effects, 1, 4) =
                   <<"toast: Request Sent Successfully", "form.reset()",
                     "onClose()", "onSuccess()">>
             /\ \A f \in Fields : values[f] = "")
    /\ ((inFlight > 0 /\ ~isOpen) ~> event = "resume")

\* a run that completed in success on a dialog closed during its flight
C9_Witness ==
    /\ event = "resume"
    /\ ~wasOpen
    /\ outcome = "success"
    /\ successCalls = 1
    /\ effects[3] = "onClose()"

(* C10: at most one submission is in flight: a run starts only when no     *)
(* run is in flight and isSubmitting is false, and there are never more    *)
(* success notifications or onSuccess calls than accepted submits.         *)
C10_SingleSubmissionInFlight ==
    /\ [](inFlight <= 1 /\ notified <= started /\ successCalls <= started)
    /\ [][started' # started => (~isSubmitting /\ inFlight = 0 /\ inFlight' = 1)]_vars

\* a second run in flight after the first one finished
C10_Witness ==
    /\ isSubmitting
    /\ inFlight = 1
    /\ started = 2
    /\ notified = 1
    /\ successCalls = 1

====
